---- MODULE Spec2Model ----
(***************************************************************************)
(* A model of src/layers.py: the Graphormer / Dynaformer encoder layer.    *)
(*                                                                         *)
(* Tensors are functions over 0-based index ranges, as in the source.      *)
(* Real numbers are modelled by integers; the places where floating point  *)
(* matters (NaN from the square root of a negative number, underflow of    *)
(* exp in the softmax) are modelled explicitly.  A forward call that       *)
(* raises is recorded in the component's "raised" variable.                *)
(*                                                                         *)
(* Each component has its own specification (SpecCentrality, SpecSpatial,  *)
(* SpecEdge, SpecHead, SpecLayer); the variables of the other components   *)
(* stay at their idle values.                                              *)
(***************************************************************************)
EXTENDS Integers, Sequences, FiniteSets

VARIABLES
    \* ---- CentralityEncoding ----
    cx,               \* the caller's node feature tensor X (an object: updated in place)
    cx_pre,           \* ghost: the values X held before the first call
    edge_index,       \* <<row0, row1>>: sources and destinations, shape (2, E)
    max_in_degree,    \* self.max_in_degree
    max_out_degree,   \* self.max_out_degree
    in_degree,        \* the index tensor used for self.z_in[...]  in the last call
    out_degree,       \* the index tensor used for self.z_out[...] in the last call
    cent_out,         \* the tensors returned, one per call
    cent_calls        \* number of forward calls made

centVars == <<cx, cx_pre, edge_index, max_in_degree, max_out_degree,
              in_degree, out_degree, cent_out, cent_calls>>

VARIABLES
    \* ---- EdgeEncoding ----
    edge_paths,         \* the caller's mapping (src, dst) -> sequence of edge indices
    edge_paths_pre,     \* ghost: the mapping as it was before the call
    max_path_distance,  \* self.max_path_distance
    cij,                \* the matrix returned by forward (NoTensor before / when it raised)
    edge_raised,        \* forward raised instead of returning
    max_weight_pos,     \* ghost: largest row index of self.edge_weights read (-1: none)
    edge_pc             \* "ready" | "done"

edgeVars == <<edge_paths, edge_paths_pre, max_path_distance, cij, edge_raised,
              max_weight_pos, edge_pc>>

VARIABLES
    \* ---- SpatialEncoding ----
    sx,                 \* node feature matrix x, shape (N, D)
    coords,             \* coordinates, shape (N, 3)
    spatial_matrix,     \* the matrix returned by forward (NoTensor before)
    spat_pc             \* "ready" | "done"

spatVars == <<sx, coords, spatial_matrix, spat_pc>>

VARIABLES
    \* ---- GraphormerAttentionHead ----
    hx,                   \* node feature matrix x, shape (N, dim_in)
    hb,                   \* spatial bias matrix b, shape (N, N)
    h_edge_paths,         \* edge_paths
    ptr,                  \* batch pointer: [none |-> TRUE] for None, else its offsets
    batch_mask_neg_inf,   \* the mask multiplied into the scores before the softmax
    batch_mask_zeros,     \* the mask multiplied into the softmax
    h_a,                  \* what compute_a returned
    h_scores,             \* the matrix handed to torch.softmax
    h_weights,            \* softmax * batch_mask_zeros, the matrix multiplied with value
    h_out,                \* the value returned by forward
    h_raised,             \* forward raised instead of returning
    head_pc               \* "ready" | "done"

headVars == <<hx, hb, h_edge_paths, ptr, batch_mask_neg_inf, batch_mask_zeros,
              h_a, h_scores, h_weights, h_out, h_raised, head_pc>>

VARIABLES
    \* ---- GraphormerEncoderLayer ----
    lx,                   \* the caller's node feature tensor x, shape (N, node_dim)
    l_b,                  \* spatial bias matrix b
    l_edge_paths,         \* edge_paths
    l_ptr,                \* batch pointer
    l_inputs_pre,         \* ghost: <<x, b, edge_paths, ptr>> as they were before the first call
    l_out,                \* the outcome of each call, in order
    l_calls               \* number of forward calls made

layerVars == <<lx, l_b, l_edge_paths, l_ptr, l_inputs_pre, l_out, l_calls>>

vars == <<centVars, edgeVars, spatVars, headVars, layerVars>>

----------------------------------------------------------------------------
\* Generic helpers

Min(a, b) == IF a < b THEN a ELSE b
Max(a, b) == IF a > b THEN a ELSE b

RECURSIVE SumTo(_, _)
\* sum of f[0] .. f[n-1]
SumTo(f, n) == IF n <= 0 THEN 0 ELSE SumTo(f, n - 1) + f[n - 1]

\* the element of a one-element set
Only(S) == CHOOSE v \in S : TRUE

\* value marking "no tensor yet"
NoTensor == <<>>

----------------------------------------------------------------------------
\* CentralityEncoding

\* bounds of the centrality model
CentNumNodes == 2
MaxEdges == 2
MaxDegree == 2
MaxCalls == 2
CentNodeDim == 1

CentNodes == 0 .. (CentNumNodes - 1)
CentDims == 0 .. (CentNodeDim - 1)

\* the learned tables self.z_in, self.z_out: one fixed instance of the parameters
z_in(k, d) == k + 1 + d
z_out(k, d) == 3 * (k + 1) + d

\* torch_geometric.utils.degree(index, num_nodes): occurrences of each node in index
degree(index, nodes) ==
    [n \in nodes |-> Cardinality({e \in DOMAIN index : index[e] = n})]

\* mutant: the comparison lets max_value + 1 through
decrease_to_max_value_late(x, max_value) ==
    [n \in DOMAIN x |-> IF x[n] > max_value + 1 THEN max_value ELSE x[n]]

\* x[x > max_value] = max_value; return x
decrease_to_max_value(x, max_value) ==
    [n \in DOMAIN x |-> IF x[n] > max_value THEN max_value ELSE x[n]]

\* line 33-34
InDegreeIndex(ei, maxIn) == decrease_to_max_value(degree(ei[2], CentNodes), maxIn - 1)
\* line 35-36
OutDegreeIndex(ei, maxOut) == decrease_to_max_value(degree(ei[1], CentNodes), maxOut - 1)

\* x += self.z_in[in_degree] + self.z_out[out_degree]: the new contents of x
CentralityAdd(x, ind, outd) ==
    [n \in CentNodes |-> [d \in CentDims |-> x[n][d] + z_in(ind[n], d) + z_out(outd[n], d)]]

\* the possible inputs
CentInputs == { [n \in CentNodes |-> [d \in CentDims |-> 0]],
                [n \in CentNodes |-> [d \in CentDims |-> n + d + 1]] }
EdgeRows(E) == [1 .. E -> CentNodes]

IdleCent ==
    /\ cx = NoTensor /\ cx_pre = NoTensor /\ edge_index = <<>>
    /\ max_in_degree = 0 /\ max_out_degree = 0
    /\ in_degree = NoTensor /\ out_degree = NoTensor
    /\ cent_out = <<>> /\ cent_calls = 0

InitCent ==
    /\ cx \in CentInputs
    /\ cx_pre = cx
    /\ \E E \in 0 .. MaxEdges : edge_index \in { <<r0, r1>> : r0 \in EdgeRows(E), r1 \in EdgeRows(E) }
    /\ max_in_degree \in 1 .. MaxDegree
    /\ max_out_degree \in 1 .. MaxDegree
    /\ in_degree = NoTensor
    /\ out_degree = NoTensor
    /\ cent_out = <<>>
    /\ cent_calls = 0

\* CentralityEncoding.forward(x, edge_index), called with the caller's tensor object
CentralityForward ==
    /\ cent_calls < MaxCalls
    /\ in_degree' = InDegreeIndex(edge_index, max_in_degree)
    /\ out_degree' = OutDegreeIndex(edge_index, max_out_degree)
    \* "x += ..." updates the argument in place; "return x" returns that same object
    /\ cx' = CentralityAdd(cx, in_degree', out_degree')
    /\ cent_out' = Append(cent_out, cx')
    /\ cent_calls' = cent_calls + 1
    /\ UNCHANGED <<cx_pre, edge_index, max_in_degree, max_out_degree>>
    /\ UNCHANGED <<edgeVars, spatVars, headVars, layerVars>>

----------------------------------------------------------------------------
\* EdgeEncoding

\* bounds of the edge-encoding model
MaxEntries == 2
MaxPathLen == 2
MaxPathDistance == 2

EdgeNodes == 0 .. 1
EdgeIds == 0 .. 1
EdgeDims == 0 .. 1

\* self.edge_weights, shape (max_path_distance, edge_dim): one fixed instance
edge_weights(p, d) == 2 * p + d + 1
\* the edge feature matrix edge_attr, shape (E, edge_dim): one fixed instance
edge_attr(e, d) == (1 - 2 * e) * (1 + 2 * d)

\* mutant: the path is used whole
PathSlice_whole(path, mpd) == path

\* path = path[:self.max_path_distance]  (a new sequence; the caller's is not touched)
PathSlice(path, mpd) == SubSeq(path, 1, Min(Len(path), mpd))

\* number of rows of self.edge_weights[:len(path)] (a slice stops at the tensor's end)
PathWeightRows(len, mpd) == Min(len, mpd)

\* (path_weights * path_edge_features).sum(dim=1) for one truncated path:
\* shapes (rw, edge_dim) * (Len(path), edge_dim); equal shapes multiply elementwise,
\* a single row broadcasts, anything else raises.  The result has shape (rows,).
PathEncoding(path, mpd) ==
    LET rw == PathWeightRows(Len(path), mpd)
        rp == Len(path)
        ok == (rw = rp) \/ (rw = 1) \/ (rp = 1)
        rows == IF rw = 1 THEN rp ELSE rw
        wrow(p) == IF rw = 1 THEN 0 ELSE p
        prow(p) == IF rp = 1 THEN 1 ELSE p + 1
    IN  [ raised |-> ~ok,
          rows   |-> IF ok THEN rows ELSE 0,
          val    |-> IF ok
                     THEN [p \in 0 .. (rows - 1) |->
                             SumTo([d \in EdgeDims |->
                                      edge_weights(wrow(p), d) * edge_attr(path[prow(p)], d)],
                                   Cardinality(EdgeDims))]
                     ELSE <<>>,
          wpos   |-> rw - 1 ]

\* cij[src][dst] = path_encoding: a one-element tensor is stored as a scalar,
\* a tensor of any other length cannot be expanded to a scalar and raises
SetItemScalar(enc) ==
    [ raised |-> enc.raised \/ enc.rows # 1,
      val    |-> IF ~enc.raised /\ enc.rows = 1 THEN enc.val[0] ELSE 0 ]

\* one iteration of the loop body (lines 113-122) for the entry with this path
EdgeLoopBody(path, mpd) ==
    LET p   == PathSlice(path, mpd)
        enc == PathEncoding(p, mpd)
        st  == SetItemScalar(enc)
    IN  [ raised |-> st.raised, val |-> st.val, wpos |-> enc.wpos ]

\* the keys of edge_paths in iteration order (the model iterates in index order)
KeyLess(a, b) == a[1] < b[1] \/ (a[1] = b[1] /\ a[2] < b[2])
RECURSIVE KeyOrder(_)
KeyOrder(S) ==
    IF S = {} THEN <<>>
    ELSE LET m == CHOOSE a \in S : \A b \in S \ {a} : KeyLess(a, b)
         IN  <<m>> \o KeyOrder(S \ {m})

\* the loop of lines 111-122 over the keys ks, from accumulator acc
RECURSIVE EdgeLoop(_, _, _, _)
EdgeLoop(ks, paths, mpd, acc) ==
    IF ks = <<>> \/ acc.raised THEN acc
    ELSE LET k == Head(ks)
             r == EdgeLoopBody(paths[k], mpd)
         IN  EdgeLoop(Tail(ks), paths, mpd,
                      [ raised |-> r.raised,
                        cij    |-> IF r.raised THEN acc.cij ELSE [acc.cij EXCEPT ![k] = r.val],
                        wpos   |-> Max(acc.wpos, r.wpos) ])

\* EdgeEncoding.forward(x, edge_attr, edge_paths) for nodes (= 0 .. x.shape[0]-1).
\* cij holds finite sums of products only, so torch.nan_to_num returns it as it is.
EdgeEncodingForward(nodes, paths, mpd) ==
    EdgeLoop(KeyOrder(DOMAIN paths), paths, mpd,
             [ raised |-> FALSE,
               cij    |-> [k \in nodes \X nodes |-> 0],
               wpos   |-> -1 ])

\* the possible inputs
Paths == UNION { [1 .. L -> EdgeIds] : L \in 0 .. MaxPathLen }
PathMaps(nodes) ==
    UNION { [K -> Paths] : K \in { S \in SUBSET (nodes \X nodes) : Cardinality(S) <= MaxEntries } }

IdleEdge ==
    /\ edge_paths = <<>> /\ edge_paths_pre = <<>> /\ max_path_distance = 0
    /\ cij = NoTensor /\ edge_raised = FALSE /\ max_weight_pos = -1 /\ edge_pc = "idle"

InitEdge ==
    /\ edge_paths \in PathMaps(EdgeNodes)
    /\ edge_paths_pre = edge_paths
    /\ max_path_distance \in 1 .. MaxPathDistance
    /\ cij = NoTensor
    /\ edge_raised = FALSE
    /\ max_weight_pos = -1
    /\ edge_pc = "ready"

\* EdgeEncoding.forward(x, edge_attr, edge_paths)
EdgeForward ==
    /\ edge_pc = "ready"
    /\ LET r == EdgeEncodingForward(EdgeNodes, edge_paths, max_path_distance)
       IN  /\ edge_raised' = r.raised
           /\ cij' = IF r.raised THEN NoTensor ELSE r.cij
           /\ max_weight_pos' = r.wpos
    /\ edge_pc' = "done"
    /\ UNCHANGED <<edge_paths, edge_paths_pre, max_path_distance>>
    /\ UNCHANGED <<centVars, spatVars, headVars, layerVars>>

----------------------------------------------------------------------------
\* SpatialEncoding

\* bounds of the spatial-encoding model
SpatNumNodes == 2
CoordMax == 1
ExpSaturate == 20

SpatNodes == 0 .. (SpatNumNodes - 1)
SpatDims == 0 .. 0
Axes == 0 .. 2
SpatHeads == 0 .. 1

\* a floating-point value: NaN, or a number
Num(v) == [nan |-> FALSE, val |-> v]
NaN == [nan |-> TRUE, val |-> 0]

\* self.means, self.stds (one per head), self.weights_dist (2 * D + 1 entries):
\* one fixed instance
means(h) == h
stds(h) == h + 1
weights_dist(k) == k + 1

\* the exact squared norm and dot product of integer coordinates
SqNorm(c) == SumTo([a \in Axes |-> c[a] * c[a]], Cardinality(Axes))
Dot(c1, c2) == SumTo([a \in Axes |-> c1[a] * c2[a]], Cardinality(Axes))

\* torch.linalg.vector_norm(c) ** 2 in float32 is fl(fl(sqrt(s)) ^ 2): the sign of
\* its rounding error against the exact s, for s = 0 .. 27 (-1: the result is below s)
SquareOfRootError(s) ==
    IF s \in {2, 7, 8, 18, 27} THEN -1
    ELSE IF s \in {6, 11, 14, 15, 19, 23, 24} THEN 1
    ELSE 0

\* one entry of norms - 2 * coords @ coords.T + norms.T: its exact integer part and
\* the sign of what rounding leaves when the exact part is 0 (identical coordinates)
SquaredDistance(ci, cj) ==
    [ base |-> SqNorm(ci) - 2 * Dot(ci, cj) + SqNorm(cj),
      err  |-> SquareOfRootError(SqNorm(ci)) + SquareOfRootError(SqNorm(cj)) ]

ISqrt(n) == CHOOSE r \in 0 .. n : r * r <= n /\ (r + 1) * (r + 1) > n

\* torch.sqrt of one entry: NaN for a negative argument
TorchSqrt(d2) ==
    IF d2.base < 0 \/ (d2.base = 0 /\ d2.err < 0) THEN NaN ELSE Num(ISqrt(d2.base))

\* distances (lines 65-66)
Distances(c) == [i \in SpatNodes |-> [j \in SpatNodes |-> TorchSqrt(SquaredDistance(c[i], c[j]))]]

\* concats ... @ self.weights_dist for the pair (i, j) (lines 68-73): a NaN distance
\* makes the product NaN
Project(x, dist, i, j) ==
    LET D == Cardinality(SpatDims)
        left == [d \in SpatDims |-> x[i][d] * weights_dist(d)]
        right == [d \in SpatDims |-> x[j][d] * weights_dist(D + 1 + d)]
    IN  IF dist[i][j].nan THEN NaN
        ELSE Num(SumTo(left, D) + dist[i][j].val * weights_dist(D) + SumTo(right, D))

RECURSIVE Pow2(_)
Pow2(n) == IF n <= 0 THEN 1 ELSE 2 * Pow2(n - 1)

\* torch.exp((v - mean_h) ** 2 / (2 * std_h ** 2)) (line 74), with 2 for e and the
\* exponent rounded down; a result too large to represent saturates (float: inf)
Gaussian(v, h) ==
    IF v.nan THEN NaN
    ELSE Num(Pow2(Min(ExpSaturate,
                      ((v.val - means(h)) * (v.val - means(h))) \div (2 * stds(h) * stds(h)))))

\* torch.mean over the heads (line 75)
HeadMean(g) ==
    IF \E h \in SpatHeads : g[h].nan THEN NaN
    ELSE Num(SumTo([h \in SpatHeads |-> g[h].val], Cardinality(SpatHeads))
               \div Cardinality(SpatHeads))

\* SpatialEncoding.forward(x, coords)
SpatialEncodingForward(x, c) ==
    LET dist == Distances(c)
    IN  [i \in SpatNodes |-> [j \in SpatNodes |->
            HeadMean([h \in SpatHeads |-> Gaussian(Project(x, dist, i, j), h)])]]

SpatInputs == { [n \in SpatNodes |-> [d \in SpatDims |-> 0]],
                [n \in SpatNodes |-> [d \in SpatDims |-> n + d + 1]] }

IdleSpat ==
    sx = NoTensor /\ coords = NoTensor /\ spatial_matrix = NoTensor /\ spat_pc = "idle"

InitSpat ==
    /\ sx \in SpatInputs
    /\ coords \in [SpatNodes -> [Axes -> 0 .. CoordMax]]
    /\ spatial_matrix = NoTensor
    /\ spat_pc = "ready"

SpatialForward ==
    /\ spat_pc = "ready"
    /\ spatial_matrix' = SpatialEncodingForward(sx, coords)
    /\ spat_pc' = "done"
    /\ UNCHANGED <<sx, coords>>
    /\ UNCHANGED <<centVars, edgeVars, headVars, layerVars>>

----------------------------------------------------------------------------
\* GraphormerAttentionHead

\* bounds of the attention model
HeadNumNodes == 3
MaxBlocks == 2
FracBits == 6
SqrtDigits == 10

\* fill_value of batch_mask_neg_inf
NegInfFill == -1000000

HeadNodes == 0 .. (HeadNumNodes - 1)
HeadDims == 0 .. 0

PtrNone == [none |-> TRUE, offs |-> <<>>]
PtrOf(offs) == [none |-> FALSE, offs |-> offs]

\* (r, c) lies in one of the slices [ptr[i]:ptr[i+1], ptr[i]:ptr[i+1]], i in range(len(ptr) - 1)
InBlock(offs, r, c) ==
    \E i \in 1 .. (Len(offs) - 1) :
        /\ offs[i] <= r /\ r < offs[i + 1]
        /\ offs[i] <= c /\ c < offs[i + 1]

\* mutant: the None branch leaves the mask filled with -1e6
BatchMaskNegInf_unset(nodes, p) ==
    [r \in nodes |-> [c \in nodes |->
        IF ~p.none /\ InBlock(p.offs, r, c) THEN 1 ELSE NegInfFill]]

\* batch_mask_neg_inf after lines 159-170
BatchMaskNegInf(nodes, p) ==
    [r \in nodes |-> [c \in nodes |->
        IF p.none THEN 1
        ELSE IF InBlock(p.offs, r, c) THEN 1 ELSE NegInfFill]]

\* mutant: the zero mask is all ones whatever the pointer
BatchMaskZeros_ones(nodes, p) == [r \in nodes |-> [c \in nodes |-> 1]]

\* batch_mask_zeros after lines 161-170
BatchMaskZeros(nodes, p) ==
    [r \in nodes |-> [c \in nodes |->
        IF p.none THEN 0 + 1
        ELSE IF InBlock(p.offs, r, c) THEN 1 ELSE 0]]

\* the nn.Linear layers self.q, self.k, self.v of head h: one fixed instance
q_weight(h, o, i) == IF o = i THEN 1 ELSE h
q_bias(h, o) == h
k_weight(h, o, i) == IF o = i THEN 1 ELSE -1
k_bias(h, o) == 1 - h
v_weight(h, o, i) == IF o = i THEN 2 ELSE 1
v_bias(h, o) == -1

\* query = self.q(x), key = self.k(x), value = self.v(x): x @ W.T + bias
Query(h, x, nodes, dims) ==
    [n \in nodes |-> [o \in dims |->
        SumTo([i \in dims |-> x[n][i] * q_weight(h, o, i)], Cardinality(dims)) + q_bias(h, o)]]
Key(h, x, nodes, dims) ==
    [n \in nodes |-> [o \in dims |->
        SumTo([i \in dims |-> x[n][i] * k_weight(h, o, i)], Cardinality(dims)) + k_bias(h, o)]]
Value(h, x, nodes, dims) ==
    [n \in nodes |-> [o \in dims |->
        SumTo([i \in dims |-> x[n][i] * v_weight(h, o, i)], Cardinality(dims)) + v_bias(h, o)]]

\* v / query.size(-1) ** 0.5, rounded down to an integer
ScaleBySqrt(v, dimq) == (v * SqrtDigits) \div ISqrt(SqrtDigits * SqrtDigits * dimq)

\* query[r] . key[c] / sqrt(dim_q): one entry of query.mm(key.transpose(0, 1)) / ...
ScoreEntry(query, key, dims, r, c) ==
    ScaleBySqrt(SumTo([d \in dims |-> query[r][d] * key[c][d]], Cardinality(dims)),
                Cardinality(dims))

\* compute_a(key, query, ptr)
compute_a(key, query, p, nodes, dims) ==
    [r \in nodes |-> [c \in nodes |->
        IF p.none THEN ScoreEntry(query, key, dims, r, c)
        ELSE IF InBlock(p.offs, r, c) THEN ScoreEntry(query, key, dims, r, c) ELSE 0]]

\* exp(d) for d <= 0 in fixed point with FracBits fraction bits (2 for e): values
\* below the smallest representable one underflow to 0
ExpFixed(d) == IF d < -FracBits THEN 0 ELSE Pow2(FracBits + d)

RECURSIVE RowMax(_, _)
RowMax(row, n) == IF n = 1 THEN row[0] ELSE Max(RowMax(row, n - 1), row[n - 1])

\* torch.softmax(a, dim=-1): each row, in fixed point (Pow2(FracBits) stands for 1)
Softmax(a, nodes) ==
    [r \in nodes |->
        LET n == Cardinality(nodes)
            m == RowMax(a[r], n)
            e == [c \in nodes |-> ExpFixed(a[r][c] - m)]
            total == SumTo(e, n)
        IN  [c \in nodes |-> (e[c] * Pow2(FracBits)) \div total]]

\* GraphormerAttentionHead.forward(x, edge_attr, b, edge_paths, ptr) of head h
HeadForward(h, x, b, paths, p, mpd, nodes, dims) ==
    LET maskNeg == BatchMaskNegInf(nodes, p)
        maskZ   == BatchMaskZeros(nodes, p)
        query == Query(h, x, nodes, dims)
        key   == Key(h, x, nodes, dims)
        value == Value(h, x, nodes, dims)
        c     == EdgeEncodingForward(nodes, paths, mpd)
        a0    == compute_a(key, query, p, nodes, dims)
        \* a = (a + b + c) * batch_mask_neg_inf
        a     == [r \in nodes |-> [cc \in nodes |->
                    (a0[r][cc] + b[r][cc] + c.cij[<<r, cc>>]) * maskNeg[r][cc]]]
        \* softmax = torch.softmax(a, dim=-1) * batch_mask_zeros
        sm    == Softmax(a, nodes)
        w     == [r \in nodes |-> [cc \in nodes |-> sm[r][cc] * maskZ[r][cc]]]
        \* x = softmax.mm(value)
        out   == [r \in nodes |-> [o \in dims |->
                    SumTo([j \in nodes |-> w[r][j] * value[j][o]], Cardinality(nodes))]]
    IN  IF c.raised
        THEN [ raised |-> TRUE, mask_neg |-> maskNeg, mask_zeros |-> maskZ,
               a |-> NoTensor, scores |-> NoTensor, weights |-> NoTensor, out |-> NoTensor ]
        ELSE [ raised |-> FALSE, mask_neg |-> maskNeg, mask_zeros |-> maskZ,
               a |-> a0, scores |-> a, weights |-> w, out |-> out ]

\* the possible inputs
HeadInputs == { [n \in HeadNodes |-> [d \in HeadDims |-> 0]],
                [n \in HeadNodes |-> [d \in HeadDims |-> n + d - 1]] }
BiasInputs(nodes) ==
    { [r \in nodes |-> [c \in nodes |-> v]] : v \in {-1, 0, 1} }
        \cup { [r \in nodes |-> [c \in nodes |-> r - c]] }
\* edge_paths with at most one entry
SinglePathMaps(nodes) ==
    UNION { [K -> Paths] : K \in { S \in SUBSET (nodes \X nodes) : Cardinality(S) <= 1 } }
\* the batch pointers for n nodes: None, or non-decreasing offsets from 0 to n with
\* at most MaxBlocks blocks
Pointers(n) ==
    {PtrNone} \cup
    UNION { { PtrOf(o) : o \in { f \in [1 .. (k + 1) -> 0 .. n] :
                                    /\ f[1] = 0 /\ f[k + 1] = n
                                    /\ \A i \in 1 .. k : f[i] <= f[i + 1] } }
            : k \in 1 .. MaxBlocks }

IdleHead ==
    /\ hx = NoTensor /\ hb = NoTensor /\ h_edge_paths = <<>> /\ ptr = PtrNone
    /\ batch_mask_neg_inf = NoTensor /\ batch_mask_zeros = NoTensor
    /\ h_a = NoTensor /\ h_scores = NoTensor /\ h_weights = NoTensor /\ h_out = NoTensor
    /\ h_raised = FALSE /\ head_pc = "idle"

InitHead ==
    /\ hx \in HeadInputs
    /\ hb \in BiasInputs(HeadNodes)
    /\ h_edge_paths \in SinglePathMaps(HeadNodes)
    /\ ptr \in Pointers(HeadNumNodes)
    /\ batch_mask_neg_inf = NoTensor /\ batch_mask_zeros = NoTensor
    /\ h_a = NoTensor /\ h_scores = NoTensor /\ h_weights = NoTensor /\ h_out = NoTensor
    /\ h_raised = FALSE
    /\ head_pc = "ready"

\* GraphormerAttentionHead.forward(x, edge_attr, b, edge_paths, ptr); the head's
\* EdgeEncoding is built with max_path_distance = MaxPathDistance
AttentionForward ==
    /\ head_pc = "ready"
    /\ LET r == HeadForward(0, hx, hb, h_edge_paths, ptr, MaxPathDistance, HeadNodes, HeadDims)
       IN  /\ h_raised' = r.raised
           /\ batch_mask_neg_inf' = r.mask_neg
           /\ batch_mask_zeros' = r.mask_zeros
           /\ h_a' = r.a
           /\ h_scores' = r.scores
           /\ h_weights' = r.weights
           /\ h_out' = r.out
    /\ head_pc' = "done"
    /\ UNCHANGED <<hx, hb, h_edge_paths, ptr>>
    /\ UNCHANGED <<centVars, edgeVars, spatVars, layerVars>>

----------------------------------------------------------------------------
\* GraphormerMultiHeadAttention and GraphormerEncoderLayer

LayerNodes == 0 .. 1
LayerDims == 0 .. 1
LayerHeads == 0 .. 1
FFDims == 0 .. 1

Sign(v) == IF v > 0 THEN 1 ELSE IF v < 0 THEN -1 ELSE 0

\* nn.LayerNorm(node_dim) with weight 1 and bias 0: (x - mean) / sqrt(var + eps) per
\* row.  For a row of one or two features the result is the sign of x - mean.
LayerNorm(x, nodes, dims) ==
    [n \in nodes |-> [d \in dims |->
        Sign(Cardinality(dims) * x[n][d] - SumTo(x[n], Cardinality(dims)))]]

\* self.linear of the multi-head attention, (num_heads * dim_k) -> dim_in, the
\* feed-forward layers self.ff[0], self.ff[2]: one fixed instance
mha_weight(o, i) == IF i % 2 = o THEN 1 ELSE -1
mha_bias(o) == o
ff1_weight(o, i) == IF o = i THEN 2 ELSE 1
ff1_bias(o) == -1
ff2_weight(o, i) == IF o = i THEN 1 ELSE -1
ff2_bias(o) == 1

\* GraphormerMultiHeadAttention.forward: the heads' outputs concatenated along the
\* feature axis, then self.linear; raises if a head raises
MultiHeadForward(x, b, paths, p, mpd, nodes, dims) ==
    LET D == Cardinality(dims)
        heads == [h \in LayerHeads |-> HeadForward(h, x, b, paths, p, mpd, nodes, dims)]
        raised == \E h \in LayerHeads : heads[h].raised
        cat == [n \in nodes |-> [i \in 0 .. (Cardinality(LayerHeads) * D - 1) |->
                    heads[i \div D].out[n][i % D]]]
    IN  [ raised |-> raised,
          out |-> IF raised THEN NoTensor
                  ELSE [n \in nodes |-> [o \in dims |->
                          SumTo([i \in 0 .. (Cardinality(LayerHeads) * D - 1) |->
                                   cat[n][i] * mha_weight(o, i)], Cardinality(LayerHeads) * D)
                          + mha_bias(o) * Pow2(FracBits)]] ]

\* nn.GELU on an integer, rounded to the nearest integer
GELU(v) == IF v > 0 THEN v ELSE 0

\* self.ff: Linear -> GELU -> Linear
FeedForward(x, nodes, dims) ==
    LET hid == [n \in nodes |-> [o \in FFDims |->
                  GELU(SumTo([i \in dims |-> x[n][i] * ff1_weight(o, i)], Cardinality(dims))
                       + ff1_bias(o))]]
    IN  [n \in nodes |-> [o \in dims |->
            SumTo([i \in FFDims |-> hid[n][i] * ff2_weight(o, i)], Cardinality(FFDims))
            + ff2_bias(o)]]

\* x_prime = attention + x; the attention output is in fixed point (Pow2(FracBits)
\* stands for 1), so x is scaled to it
Residual(att_out, x, nodes, dims) ==
    [n \in nodes |-> [d \in dims |-> att_out[n][d] + x[n][d] * Pow2(FracBits)]]

\* x_new = self.ff(self.ln_2(x_prime)) + x_prime, in fixed point
FeedForwardResidual(x_prime, nodes, dims) ==
    LET ff == FeedForward(LayerNorm(x_prime, nodes, dims), nodes, dims)
    IN  [n \in nodes |-> [d \in dims |-> ff[n][d] * Pow2(FracBits) + x_prime[n][d]]]

\* GraphormerEncoderLayer.forward(x, edge_attr, b, edge_paths, ptr): each stage is
\* computed once and handed to the next
EncoderLayerForward(x, b, paths, p, mpd, nodes, dims) ==
    Only({ IF att.raised
           THEN [ raised |-> TRUE, x_new |-> NoTensor ]
           ELSE Only({ [ raised |-> FALSE, x_new |-> FeedForwardResidual(x_prime, nodes, dims) ]
                       : x_prime \in { Residual(att.out, x, nodes, dims) } })
           : att \in { Only({ MultiHeadForward(ln, b, paths, p, mpd, nodes, dims)
                               : ln \in { LayerNorm(x, nodes, dims) } }) } })

\* mutant: the residual is added in place ("x += ..."), so the caller's x changes
InputAfterForward_inplace(x, outcome) ==
    IF outcome.raised THEN x ELSE outcome.x_new

\* what the caller's x holds after forward: "... + x" builds a new tensor and
\* nothing assigns into x
InputAfterForward(x, outcome) == x

LayerInputs == { [n \in LayerNodes |-> [d \in LayerDims |-> 0]],
                 [n \in LayerNodes |-> [d \in LayerDims |-> n + 2 * d - 1]],
                 [n \in LayerNodes |-> [d \in LayerDims |-> n - d]] }

IdleLayer ==
    /\ lx = NoTensor /\ l_b = NoTensor /\ l_edge_paths = <<>> /\ l_ptr = PtrNone
    /\ l_inputs_pre = <<>> /\ l_out = <<>> /\ l_calls = 0

InitLayer ==
    /\ lx \in LayerInputs
    /\ l_b \in BiasInputs(LayerNodes)
    /\ l_edge_paths \in SinglePathMaps(LayerNodes)
    /\ l_ptr \in Pointers(Cardinality(LayerNodes))
    /\ l_inputs_pre = <<lx, l_b, l_edge_paths, l_ptr>>
    /\ l_out = <<>>
    /\ l_calls = 0

\* GraphormerEncoderLayer.forward(x, edge_attr, b, edge_paths, ptr), called with the
\* caller's objects
LayerForward ==
    /\ l_calls < MaxCalls
    /\ LET r == EncoderLayerForward(lx, l_b, l_edge_paths, l_ptr, MaxPathDistance,
                                    LayerNodes, LayerDims)
       IN  /\ l_out' = Append(l_out, r)
           /\ lx' = InputAfterForward(lx, r)
    /\ l_calls' = l_calls + 1
    /\ UNCHANGED <<l_b, l_edge_paths, l_ptr, l_inputs_pre>>
    /\ UNCHANGED <<centVars, edgeVars, spatVars, headVars>>

----------------------------------------------------------------------------
\* Specifications

InitCentrality == InitCent /\ IdleEdge /\ IdleSpat /\ IdleHead /\ IdleLayer
SpecCentrality == InitCentrality /\ [][CentralityForward]_vars

InitEdgeEncoding == IdleCent /\ InitEdge /\ IdleSpat /\ IdleHead /\ IdleLayer
SpecEdge == InitEdgeEncoding /\ [][EdgeForward]_vars

InitSpatial == IdleCent /\ IdleEdge /\ InitSpat /\ IdleHead /\ IdleLayer
SpecSpatial == InitSpatial /\ [][SpatialForward]_vars

InitAttention == IdleCent /\ IdleEdge /\ IdleSpat /\ InitHead /\ IdleLayer
SpecHead == InitAttention /\ [][AttentionForward]_vars

InitEncoderLayer == IdleCent /\ IdleEdge /\ IdleSpat /\ IdleHead /\ InitLayer
SpecLayer == InitEncoderLayer /\ [][LayerForward]_vars

----------------------------------------------------------------------------
\* Claims about EdgeEncoding (under SpecEdge)

\* the scalar the specification describes for a path: the sum over the positions
\* p < min(L, max_path_distance) and the feature dimensions d of
\* edge_weights[p][d] * edge_attr[path[p]][d]
PathSum(path, mpd) ==
    LET L == Min(Len(path), mpd)
    IN  SumTo([p \in 0 .. (L - 1) |->
                 SumTo([d \in EdgeDims |-> edge_weights(p, d) * edge_attr(path[p + 1], d)],
                       Cardinality(EdgeDims))], L)

AllPairs == EdgeNodes \X EdgeNodes

\* C3: for every (src, dst) present in edge_paths with a path of any length L >= 1,
\* forward completes and cij[src][dst] is the scalar PathSum of the path.
\* (Stated for mappings whose paths are all non-empty, so that only this claim's
\* case is exercised.)
C3_PathScalar ==
    (edge_pc = "done" /\ \A k \in DOMAIN edge_paths : Len(edge_paths[k]) >= 1)
        => /\ ~edge_raised
           /\ \A k \in DOMAIN edge_paths : cij[k] = PathSum(edge_paths[k], max_path_distance)

\* C4: for every pair whose path is absent or present but empty, forward does not
\* raise and the returned matrix holds 0 there; an empty mapping gives all zeros.
\* (Stated for mappings whose paths are all empty, so that only this claim's case
\* is exercised.)
C4_AbsentOrEmptyIsZero ==
    (edge_pc = "done" /\ \A k \in DOMAIN edge_paths : edge_paths[k] = <<>>)
        => /\ ~edge_raised
           /\ \A k \in AllPairs : cij[k] = 0

\* the outcome of a call, as the caller sees it
EdgeOutcome(paths, mpd) ==
    LET r == EdgeEncodingForward(EdgeNodes, paths, mpd)
    IN  [ raised |-> r.raised, cij |-> IF r.raised THEN NoTensor ELSE r.cij ]

\* C5: only the first max_path_distance edges of a path are used: replacing a path
\* by any other path with the same first max_path_distance edges gives the same
\* outcome; no row of edge_weights beyond max_path_distance - 1 is read; and the
\* caller's edge_paths is left as it was.
C5_Truncation ==
    edge_pc = "done" =>
        /\ \A k \in DOMAIN edge_paths : \A q \in Paths :
              (SubSeq(q, 1, Min(Len(q), max_path_distance))
                 = SubSeq(edge_paths[k], 1, Min(Len(edge_paths[k]), max_path_distance)))
              => EdgeOutcome([edge_paths EXCEPT ![k] = q], max_path_distance)
                   = [ raised |-> edge_raised, cij |-> cij ]
        /\ max_weight_pos <= max_path_distance - 1
        /\ edge_paths = edge_paths_pre

\* C5 witness: a call that returned, for a mapping with a path longer than
\* max_path_distance, whose entry holds the value of its first edges only
C5_Witness ==
    /\ edge_pc = "done" /\ ~edge_raised
    /\ \E k \in DOMAIN edge_paths :
          /\ Len(edge_paths[k]) > max_path_distance
          /\ cij[k] = PathSum(edge_paths[k], max_path_distance)
          /\ cij[k] # 0

----------------------------------------------------------------------------
\* Claims about CentralityEncoding (under SpecCentrality)

TrueInDegree(n) == Cardinality({e \in DOMAIN edge_index[2] : edge_index[2][e] = n})
TrueOutDegree(n) == Cardinality({e \in DOMAIN edge_index[1] : edge_index[1][e] = n})

\* C6: the index used to look up z_in (z_out) lies in [0, max_in_degree - 1]
\* ([0, max_out_degree - 1]); it is the node's true degree when that is below the
\* maximum and exactly max_degree - 1 when the true degree is >= max_degree.
C6_ClampedIndex ==
    cent_calls >= 1 =>
        \A n \in CentNodes :
            /\ in_degree[n] \in 0 .. (max_in_degree - 1)
            /\ out_degree[n] \in 0 .. (max_out_degree - 1)
            /\ in_degree[n] = IF TrueInDegree(n) < max_in_degree
                              THEN TrueInDegree(n) ELSE max_in_degree - 1
            /\ out_degree[n] = IF TrueOutDegree(n) < max_out_degree
                               THEN TrueOutDegree(n) ELSE max_out_degree - 1

\* C6 witness: a call in which one node's in-degree was clamped (degree >= maximum,
\* index max - 1) and another node's out-degree was used as it is
C6_Witness ==
    /\ cent_calls >= 1
    /\ \E n \in CentNodes : TrueInDegree(n) >= max_in_degree /\ in_degree[n] = max_in_degree - 1
    /\ \E n \in CentNodes : TrueOutDegree(n) >= 1 /\ TrueOutDegree(n) < max_out_degree
                               /\ out_degree[n] = TrueOutDegree(n)

\* C7: forward returns a new tensor: after a call the caller's X still holds its
\* original values, the output is the pre-call X plus the z_in / z_out rows, and a
\* second call with the same X object returns the same output.
C7_InputNotMutated ==
    /\ cent_calls >= 1 =>
          /\ cx = cx_pre
          /\ cent_out[1] = CentralityAdd(cx_pre, in_degree, out_degree)
    /\ cent_calls >= 2 => cent_out[2] = cent_out[1]

----------------------------------------------------------------------------
\* Claims about SpatialEncoding (under SpecSpatial)

\* C9: any NaN from the pairwise-distance computation is replaced with zero before
\* the matrix is returned: the returned bias matrix never contains NaN.
C9_NoNaNReturned ==
    spat_pc = "done" => \A i \in SpatNodes : \A j \in SpatNodes : ~spatial_matrix[i][j].nan

----------------------------------------------------------------------------
\* Claims about GraphormerAttentionHead (under SpecHead)

\* r and c lie in the same block [ptr[k], ptr[k+1]) of the batch pointer
SameBlock(offs, r, c) ==
    \E k \in 1 .. (Len(offs) - 1) : {r, c} \subseteq offs[k] .. (offs[k + 1] - 1)

\* C1: with a batch pointer, for every pair of nodes in different blocks the
\* post-softmax weight that multiplies the value matrix is exactly zero.
C1_NoCrossGraphWeight ==
    (head_pc = "done" /\ ~h_raised /\ ~ptr.none) =>
        \A r \in HeadNodes : \A c \in HeadNodes :
            ~SameBlock(ptr.offs, r, c) => h_weights[r][c] = 0

\* C1 witness: a call with two non-empty blocks in which the softmax itself gave
\* a cross-block pair a positive weight, and the weight used is 0
C1_Witness ==
    /\ head_pc = "done" /\ ~h_raised /\ ~ptr.none
    /\ \E r \in HeadNodes : \E c \in HeadNodes :
          /\ ~SameBlock(ptr.offs, r, c)
          /\ Softmax(h_scores, HeadNodes)[r][c] > 0
          /\ h_weights[r][c] = 0

\* C2: with a batch pointer, every score outside a graph's own block is forced to
\* a large negative value before the softmax, whatever b and c are there: it is
\* negative and strictly below every in-block score.
C2_OffBlockScoreNegative ==
    (head_pc = "done" /\ ~h_raised /\ ~ptr.none) =>
        \A r \in HeadNodes : \A c \in HeadNodes :
            ~SameBlock(ptr.offs, r, c) =>
                /\ h_scores[r][c] < 0
                /\ \A r2 \in HeadNodes : \A c2 \in HeadNodes :
                      SameBlock(ptr.offs, r2, c2) => h_scores[r][c] < h_scores[r2][c2]

\* the full-graph pointer [0, N]
FullPtr == PtrOf(<<0, HeadNumNodes>>)

\* C8: forward with ptr = None gives the same masks, the same compute_a matrix and
\* the same output as forward with ptr = [0, N] on the same inputs.
C8_NoneIsFullBlock ==
    (head_pc = "done" /\ ptr \in {PtrNone, FullPtr}) =>
        LET other == IF ptr.none THEN FullPtr ELSE PtrNone
            r == HeadForward(0, hx, hb, h_edge_paths, other, MaxPathDistance, HeadNodes, HeadDims)
        IN  /\ r.raised = h_raised
            /\ r.mask_neg = batch_mask_neg_inf
            /\ r.mask_zeros = batch_mask_zeros
            /\ r.a = h_a
            /\ r.out = h_out

\* C8 witness: a call with ptr = None that returned a non-zero output from
\* non-zero scores
C8_Witness ==
    /\ head_pc = "done" /\ ptr.none /\ ~h_raised
    /\ \E r \in HeadNodes : \E c \in HeadNodes : h_a[r][c] # 0
    /\ \E r \in HeadNodes : \E d \in HeadDims : h_out[r][d] # 0

----------------------------------------------------------------------------
\* Claims about GraphormerEncoderLayer (under SpecLayer)

\* C10: forward keeps no state and does not modify its inputs: after any call the
\* caller's x, b, edge_paths and ptr are as before the first call, an output has
\* the shape (N, node_dim) of x, and two consecutive calls have the same outcome.
C10_Deterministic ==
    /\ l_calls >= 1 =>
          /\ <<lx, l_b, l_edge_paths, l_ptr>> = l_inputs_pre
          /\ \A k \in 1 .. l_calls :
                ~l_out[k].raised =>
                    /\ DOMAIN l_out[k].x_new = DOMAIN lx
                    /\ \A n \in DOMAIN lx : DOMAIN l_out[k].x_new[n] = DOMAIN lx[n]
    /\ l_calls >= 2 => l_out[2] = l_out[1]

\* C10 witness: two calls that both returned, with an output that differs from
\* the input
C10_Witness ==
    /\ l_calls >= 2
    /\ ~l_out[1].raised /\ ~l_out[2].raised
    /\ \E n \in LayerNodes : \E d \in LayerDims :
          l_out[2].x_new[n][d] # lx[n][d] * Pow2(FracBits)

====
